---- MODULE Spec2Model ----
(***************************************************************************)
(* A model of two pieces of the repository:                                *)
(*   - the sandbox executor of the integration-test utilities              *)
(*     (runBundles, prepareBrowserContext, prepareNodeContext and the      *)
(*     process-wide nodeCache), as a state machine over event-loop turns;  *)
(*   - NodeResolverBase (expandFile), as pure operators applied to inputs  *)
(*     drawn from bounded sets.                                            *)
(* One action is one turn of the event loop: the synchronous part of a     *)
(* callback followed by the microtasks it queued.                          *)
(***************************************************************************)
EXTENDS Integers, Sequences, FiniteSets, TLC

\* ------------------------------------------------------------------ bounds
\* Longest bundle list handed to runBundles.
MaxBundles == 2
\* Number of runBundles calls made in one process.
MaxRuns == 2
\* Depth of nested require calls after which the engine's call stack is
\* taken to be exhausted (a RangeError).
MaxDepth == 4
\* Longest file path (in characters) given to expandFile.
MaxPathLen == 3
\* Longest configured extension list of a resolver.
MaxExts == 2
\* Longest main or source string of a drawn manifest.
MaxMainLen == 2
\* Longest module name made of ModChars.
MaxNameLen == 6

\* ------------------------------------------------------- the virtual files
Op(o, a) == [op |-> o, arg |-> a]

NotFound == "<notfound>"

\* Files the virtual filesystem (overlayFS) holds.
Files ==
  { "/dist/a.js", "/dist/b.js", "/dist/c.js", "/dist/d.js", "/dist/s1.js",
    "/dist/s2.js", "/dist/data.txt",
    "/app/main.js", "/app/a.js", "/app/b.js", "/app/e.js", "/app/t.js" }

\* Bundle paths a bundle graph may name; "/dist/gone.js" is not on disk.
BundleFiles ==
  { "/dist/a.js", "/dist/b.js", "/dist/c.js", "/dist/d.js", "/dist/gone.js",
    "/app/main.js", "/app/a.js", "/app/e.js" }

\* path.dirname of a path.
Dirname(f) ==
  IF f \in { "/app/main.js", "/app/a.js", "/app/b.js", "/app/e.js", "/app/t.js" }
  THEN "/app" ELSE "/dist"

\* path.join(dir, name): the file a script src or fetch url names.
JoinPath(dir, name) ==
  CASE dir = "/dist" /\ name = "s1.js" -> "/dist/s1.js"
    [] dir = "/dist" /\ name = "s2.js" -> "/dist/s2.js"
    [] dir = "/dist" /\ name = "data.txt" -> "/dist/data.txt"
    [] dir = "/dist" /\ name = "missing.js" -> "/dist/missing.js"
    [] dir = "/dist" /\ name = "nodata.txt" -> "/dist/nodata.txt"
    [] dir = "/app" /\ name = "s1.js" -> "/app/s1.js"
    [] dir = "/app" /\ name = "s2.js" -> "/app/s2.js"
    [] dir = "/app" /\ name = "data.txt" -> "/app/data.txt"
    [] dir = "/app" /\ name = "missing.js" -> "/app/missing.js"
    [] dir = "/app" /\ name = "nodata.txt" -> "/app/nodata.txt"
    [] OTHER -> NotFound

\* Platform builtin module names the bundles ask for.
Builtins == { "fs", "path" }

\* resolve.sync(specifier, {basedir, extensions: ['.js', '.json'], ...}):
\* a builtin resolves to itself, a relative specifier to the file of that
\* name under basedir, anything else is not found.
Resolve(spec, basedir) ==
  CASE spec \in Builtins -> spec
    [] spec = "./a" /\ basedir = "/app" -> "/app/a.js"
    [] spec = "./b" /\ basedir = "/app" -> "/app/b.js"
    [] spec = "./e" /\ basedir = "/app" -> "/app/e.js"
    [] spec = "./t" /\ basedir = "/app" -> "/app/t.js"
    [] spec = "./a" /\ basedir = "/dist" -> "/dist/a.js"
    [] spec = "./b" /\ basedir = "/dist" -> "/dist/b.js"
    [] OTHER -> NotFound

\* The code each file holds, as the sequence of effects it has when run.
Code(f) ==
  CASE f = "/dist/a.js" -> << Op("set", "g1"), Op("elem", "link"), Op("script", "s1.js") >>
    [] f = "/dist/b.js" -> << Op("use", "g1"), Op("exports", "42"), Op("fetch", "data.txt"),
                              Op("elem", "div") >>
    [] f = "/dist/c.js" -> << Op("script", "missing.js"), Op("fetch", "nodata.txt") >>
    [] f = "/dist/d.js" -> << Op("set", "parcelRequire1"), Op("set", "output"), Op("nomodule", "") >>
    [] f = "/dist/s1.js" -> << Op("set", "parcelRequire2"), Op("script", "s2.js") >>
    [] f = "/dist/s2.js" -> << Op("exports", "43") >>
    [] f = "/app/main.js" -> << Op("require", "./a"), Op("require", "fs"), Op("require", "path"), Op("exports", "42") >>
    [] f = "/app/a.js" -> << Op("set", "ga"), Op("require", "./b"), Op("set", "output") >>
    [] f = "/app/b.js" -> << Op("require", "./a") >>
    [] f = "/app/e.js" -> << Op("require", "./t") >>
    [] f = "/app/t.js" -> << Op("exports", "43"), Op("throw", "") >>
    [] OTHER -> << >>

\* Names of the globals the files above bind.
Names == { "g1", "ga", "output", "parcelRequire1", "parcelRequire2" }

\* key.startsWith('parcelRequire')
StartsWithParcelRequire(key) == key \in { "parcelRequire1", "parcelRequire2" }

\* ------------------------------------------------------------------ values
\* JavaScript values the model tells apart: undefined, a literal, the
\* exports object first created for context `id`, a value bound by the code
\* of a file, the value a parcelRequire global returns, a whole context.
Undef == [t |-> "undef", of |-> "", id |-> 0]
Lit(v) == [t |-> "lit", of |-> v, id |-> 0]
Obj(i) == [t |-> "obj", of |-> "", id |-> i]
By(f) == [t |-> "by", of |-> f, id |-> 0]
Called(key) == [t |-> "call", of |-> key, id |-> 0]
CtxRef(i) == [t |-> "ctx", of |-> "", id |-> i]

\* bundleGraph.getAssetPublicId(entryAsset)
EntryPublicId == "entryId"

Range(s) == { s[i] : i \in DOMAIN s }

\* ---------------------------------------------------------------- contexts
\* Context 0 is the context the bundles of the current run are evaluated
\* in; contexts 1, 2, ... are the nested contexts require builds.
\* A context: the file it was prepared for, the run that built it, its
\* global bindings (keys in insertion order), module.exports, and whether
\* its module binding is still an object.
NewCtx(f, r, i) ==
  [ file |-> f, run |-> r,
    vars |-> [n \in Names |-> Undef], keys |-> << >>,
    exports |-> Obj(i), modOk |-> TRUE ]

GetCtx(c, st) == IF c = 0 THEN st.main ELSE st.heap[c]

PutCtx(c, rec, st) ==
  IF c = 0 THEN [st EXCEPT !.main = rec] ELSE [st EXCEPT !.heap[c] = rec]

Throw(st, e) == [st EXCEPT !.err = e]

\* Whether code running in context c sees document/fetch (the browser half)
\* and require (the process half).
HasDocument(c, st) == c = 0 /\ st.target \in { "browser", "electron-renderer" }
HasRequire(c, st) == c # 0 \/ st.target \in { "node", "electron-main", "electron-renderer" }

\* An element of head.children: its tag, its src, the pending load
\* registered for it (0 for none) and what has been done for it so far.
Element(tag, src, load, steps) ==
  [tag |-> tag, src |-> src, load |-> load, steps |-> steps]

\* What the timer callback of a script tag does, in order.
ScriptSteps == << "read", "eval", "onload", "resolve" >>

\* An appendChild that runs the script at once and registers no timer.
AppendScriptEager(src, st) ==
  LET load == [ kind |-> "script", path |-> JoinPath(Dirname(st.parent), src),
                state |-> "resolved", dead |-> FALSE ]
  IN [st EXCEPT !.head = Append(@, Element("script", src, Len(st.promises) + 1, ScriptSteps)),
                !.promises = Append(@, load)]

\* head.appendChild(el) for a script tag: one pending load is registered and
\* its evaluation is left to a timer.
AppendScript(src, st) ==
  LET load == [ kind |-> "script", path |-> JoinPath(Dirname(st.parent), src),
                state |-> "pending", dead |-> FALSE ]
  IN [st EXCEPT !.head = Append(@, Element("script", src, Len(st.promises) + 1, << >>)),
                !.promises = Append(@, load),
                !.timers = Append(@, Len(st.promises) + 1)]

\* Tags of the other elements the bundles append: a link carries an onload
\* function, a div carries none.
HasOnload(tag) == tag = "link"

\* head.appendChild(el) for any other element: its onload, when it is a
\* function, is called before appendChild returns.
AppendElement(tag, st) ==
  [st EXCEPT !.head = Append(@, Element(tag, "", 0,
                                IF HasOnload(tag) THEN << "onload" >> ELSE << >>))]

\* fetch(url) returns an already resolved promise: the read of text() or
\* arrayBuffer() starts in the microtask that receives the response.
Fetch(url, st) == [st EXCEPT !.micro = Append(@, url)]

\* The record of one require call, kept for the properties.
ReqEvent(c, res, kind, ret, st) ==
  [ from |-> c, res |-> res, kind |-> kind, ret |-> ret,
    onstack |-> \E i \in DOMAIN st.stack : st.stack[i].file = res,
    nested |-> \E i \in DOMAIN st.stack : st.stack[i].file = res /\ st.stack[i].ctx # 0,
    live |-> IF \E i \in DOMAIN st.stack : st.stack[i].file = res
             THEN LET i == CHOOSE j \in DOMAIN st.stack :
                             /\ st.stack[j].file = res
                             /\ \A k \in DOMAIN st.stack : st.stack[k].file = res => k <= j
                  IN GetCtx(st.stack[i].ctx, st).exports
             ELSE Undef,
    evals |-> IF res \in Files THEN st.evals[res] ELSE 0 ]

RECURSIVE Exec(_, _, _, _, _)
RECURSIVE Req(_, _, _, _)

\* A require that forgets to enter the new context in the cache.
CacheInsertSkipped(st, res, id) == st

\* nodeCache[res] = ctx, before the code of res runs.
CacheInsert(st, res, id) == [st EXCEPT !.cache = (res :> id) @@ @]

\* req(specifier) of the context c prepared for file GetCtx(c, st).file.
Req(spec, c, depth, st) ==
  LET res == Resolve(spec, Dirname(GetCtx(c, st).file)) IN
  IF res = NotFound THEN Throw(st, "MODULE_NOT_FOUND")
  ELSE IF res = "fs"
    THEN [st EXCEPT !.reqlog = Append(@, ReqEvent(c, res, "fsshim", Undef, st))]
  ELSE IF res = spec
    THEN [st EXCEPT !.reqlog = Append(@, ReqEvent(c, res, "builtin", Undef, st))]
  ELSE IF res \in DOMAIN st.cache
    THEN [st EXCEPT !.reqlog =
            Append(@, ReqEvent(c, res, "cached", st.heap[st.cache[res]].exports, st))]
  ELSE IF depth >= MaxDepth THEN Throw(st, "RangeError")
  ELSE
    LET id == st.nctx + 1
        st0 == [st EXCEPT !.nctx = id,
                          !.heap = (id :> NewCtx(res, st.run, id)) @@ @]
        st1 == CacheInsert(st0, res, id)
        st2 == [st1 EXCEPT !.evals[res] = @ + 1,
                           !.stack = Append(@, [file |-> res, ctx |-> id])]
        st3 == Exec(Code(res), res, id, depth + 1, st2)
        st4 == [st3 EXCEPT !.stack = SubSeq(@, 1, Len(@) - 1)]
    IN IF st3.err # "none"
         THEN [st4 EXCEPT !.reqlog = Append(@, ReqEvent(c, res, "threw", Undef, st4))]
       ELSE [st4 EXCEPT !.reqlog =
               Append(@, ReqEvent(c, res, "fresh", st4.heap[id].exports, st4))]

\* One effect of the code of `file`, run in context c.
Step(o, file, c, depth, st) ==
  LET ctx == GetCtx(c, st) IN
  CASE o.op = "set" ->
         PutCtx(c, [ctx EXCEPT !.vars[o.arg] = By(file),
                               !.keys = IF o.arg \in Range(@) THEN @ ELSE Append(@, o.arg)], st)
    [] o.op = "use" ->
         IF ctx.vars[o.arg] = Undef THEN Throw(st, "ReferenceError") ELSE st
    [] o.op = "exports" ->
         IF ctx.modOk THEN PutCtx(c, [ctx EXCEPT !.exports = Lit(o.arg)], st)
         ELSE Throw(st, "TypeError")
    [] o.op = "nomodule" -> PutCtx(c, [ctx EXCEPT !.modOk = FALSE], st)
    [] o.op = "script" ->
         IF HasDocument(c, st) THEN AppendScript(o.arg, st) ELSE Throw(st, "ReferenceError")
    [] o.op = "elem" ->
         IF HasDocument(c, st) THEN AppendElement(o.arg, st) ELSE Throw(st, "ReferenceError")
    [] o.op = "fetch" ->
         IF HasDocument(c, st) THEN Fetch(o.arg, st) ELSE Throw(st, "ReferenceError")
    [] o.op = "require" ->
         IF HasRequire(c, st) THEN Req(o.arg, c, depth, st) ELSE Throw(st, "ReferenceError")
    [] OTHER -> Throw(st, "Error")

\* vm's evaluation of the code of `file` in context c: the effects in order,
\* up to the first one that throws.
Exec(ops, file, c, depth, st) ==
  IF ops = << >> \/ st.err # "none" THEN st
  ELSE Exec(Tail(ops), file, c, depth, Step(Head(ops), file, c, depth, st))

\* ------------------------------------------------------------------- state
VARIABLES
  heap,       \* the nested contexts built so far, by context number
  nodeCache,  \* the module-level nodeCache: resolved path -> context number
  nctx,       \* number of nested contexts built so far
  run,        \* number of runBundles calls made so far
  pc,         \* where the current call stands: idle, reading, joining, done, failed
  target,     \* entryAsset.env.context of the current call
  bundles,    \* the bundle list of the current call (file paths)
  idx,        \* index of the bundle whose file is being read
  prepared,   \* the context halves the current call has built
  main,       \* the context the bundles are evaluated in
  promises,   \* the pending-load list of the browser half, in push order
  head,       \* document.head.children of the browser half, in append order
  joinLen,    \* how many loads Promise.all took when it was called, -1 before
  timers,     \* setTimeout callbacks not yet run: indexes into promises
  result,     \* what the call produced
  env,        \* env.outputFormat, env.scopeHoist and opts.require, once read
  order,      \* the bundles evaluated so far, with the globals each one found
  evals,      \* per file, how many times require evaluated its code in this run
  reqlog,     \* the require calls of this run
  calls,      \* the invocations of a parcelRequire global by the extraction
  file,       \* resolver: the path given to expandFile
  extensions, \* resolver: this.extensions
  candidates, \* resolver: what expandFile returned
  rpc,        \* resolver: "input" before the call, "expanded" after
  pkgDir,     \* resolver: the directory given to getPackageEntries
  pkg,        \* resolver: the manifest given to getPackageEntries
  buildEnv,   \* resolver: process.env.PARCEL_BUILD_ENV
  entries,    \* resolver: what getPackageEntries returned
  epc,        \* resolver: "input" before getPackageEntries, "returned" after
  builtins,   \* resolver: the own keys of the module-level builtins object
  modName,    \* resolver: the name given to getModuleParts or isBuiltin
  parts,      \* resolver: what getModuleParts returned
  builtin,    \* resolver: what isBuiltin returned
  mpc,        \* resolver: "input" before the call, then "parts" or "builtin"
  ctxTarget,  \* context preparation: the target the context is built for
  globals,    \* context preparation: the keys of the caller's globals
  ctxProps,   \* context preparation: what the properties of the context hold
  cpc         \* context preparation: "input", then "prepared" or "failed"

procVars == << heap, nodeCache, nctx, run >>
runVars == << pc, target, bundles, idx, prepared, main, promises, head, joinLen,
              timers, result, env, order, evals, reqlog, calls >>
pkgVars == << pkgDir, pkg, buildEnv, entries, epc >>
modVars == << builtins, modName, parts, builtin, mpc >>
ctxVars == << ctxTarget, globals, ctxProps, cpc >>
resVars == << file, extensions, candidates, rpc, pkgVars, modVars, ctxVars >>
vars == << procVars, runVars, resVars >>

Targets == { "browser", "node", "electron-main", "electron-renderer", "web-worker" }
OutputFormats == { "global", "commonjs", "esmodule" }

NoResult == [kind |-> "none", val |-> Undef, err |-> ""]
Failure(e) == [kind |-> "error", val |-> Undef, err |-> e]
NoEnv == [read |-> FALSE, outputFormat |-> "", scopeHoist |-> FALSE, require |-> TRUE]

BundleLists == UNION { [1..n -> BundleFiles] : n \in 1..MaxBundles }

\* A turn that evaluates its code in a context of its own.
TurnIsolated(stack0) ==
  [ heap |-> heap, cache |-> nodeCache, nctx |-> nctx,
    main |-> NewCtx(bundles[1], run, 0),
    err |-> "none", promises |-> promises, head |-> head, timers |-> timers,
    micro |-> << >>,
    evals |-> evals, reqlog |-> reqlog, stack |-> stack0, run |-> run,
    target |-> target, parent |-> bundles[1] ]

\* The state a turn starts from, as the record Exec threads through: the
\* code of the turn runs in the one context of the call.
Turn(stack0) ==
  [ heap |-> heap, cache |-> nodeCache, nctx |-> nctx, main |-> main,
    err |-> "none", promises |-> promises, head |-> head, timers |-> timers,
    micro |-> << >>,
    evals |-> evals, reqlog |-> reqlog, stack |-> stack0, run |-> run,
    target |-> target, parent |-> bundles[1] ]

RECURSIVE StartReads(_, _, _)
\* The microtasks of a turn: every response of fetch starts its read, which
\* is pushed on the pending-load list.
StartReads(urls, parent, ps) ==
  IF urls = << >> THEN ps
  ELSE StartReads(Tail(urls), parent,
         Append(ps, [ kind |-> "fetch", path |-> JoinPath(Dirname(parent), Head(urls)),
                      state |-> "pending", dead |-> FALSE ]))

\* Promise.all over the first n loads: rejected as soon as one is, resolved
\* once all are.
JoinState(ps, n) ==
  IF \E i \in 1..n : ps[i].state = "rejected" THEN "rejected"
  ELSE IF \A i \in 1..n : ps[i].state = "resolved" THEN "resolved"
  ELSE "pending"

\* The first key of the context, in enumeration order, that starts with
\* parcelRequire; 0 when there is none.
FirstParcelRequire(keys) ==
  IF \E i \in DOMAIN keys : StartsWithParcelRequire(keys[i])
  THEN CHOOSE i \in DOMAIN keys :
         /\ StartsWithParcelRequire(keys[i])
         /\ \A j \in DOMAIN keys : StartsWithParcelRequire(keys[j]) => i <= j
  ELSE 0

\* An extraction that invokes every parcelRequire global it meets.
ExtractCallsAll(ctx, e) ==
  IF e.require /\ e.outputFormat = "global" /\ ~e.scopeHoist
  THEN LET ks == SelectSeq(ctx.keys, StartsWithParcelRequire)
       IN [i \in DOMAIN ks |-> [key |-> ks[i], arg |-> EntryPublicId]]
  ELSE << >>

\* The invocations the extraction makes.
ExtractCalls(ctx, e) ==
  IF e.require /\ e.outputFormat = "global" /\ ~e.scopeHoist /\ FirstParcelRequire(ctx.keys) # 0
  THEN << [key |-> ctx.keys[FirstParcelRequire(ctx.keys)], arg |-> EntryPublicId] >>
  ELSE << >>

\* An extraction whose switch falls through to `return` on an unknown format.
ExtractNoFormatCheck(ctx, e) ==
  IF ~e.require THEN [kind |-> "ctx", val |-> CtxRef(0), err |-> ""]
  ELSE IF e.outputFormat = "global" THEN
    IF e.scopeHoist THEN [kind |-> "value", val |-> ctx.vars["output"], err |-> ""]
    ELSE IF FirstParcelRequire(ctx.keys) # 0
      THEN [kind |-> "value", val |-> Called(ctx.keys[FirstParcelRequire(ctx.keys)]), err |-> ""]
      ELSE [kind |-> "value", val |-> Undef, err |-> ""]
  ELSE IF e.outputFormat = "commonjs" THEN
    IF ctx.modOk THEN [kind |-> "value", val |-> ctx.exports, err |-> ""]
    ELSE Failure("Invariant")
  ELSE [kind |-> "value", val |-> Undef, err |-> ""]

\* An extraction without the invariant on ctx.module.
ExtractNoInvariant(ctx, e) ==
  IF ~e.require THEN [kind |-> "ctx", val |-> CtxRef(0), err |-> ""]
  ELSE IF e.outputFormat = "global" THEN
    IF e.scopeHoist THEN [kind |-> "value", val |-> ctx.vars["output"], err |-> ""]
    ELSE IF FirstParcelRequire(ctx.keys) # 0
      THEN [kind |-> "value", val |-> Called(ctx.keys[FirstParcelRequire(ctx.keys)]), err |-> ""]
      ELSE [kind |-> "value", val |-> Undef, err |-> ""]
  ELSE IF e.outputFormat = "commonjs" THEN [kind |-> "value", val |-> ctx.exports, err |-> ""]
  ELSE Failure("UnsupportedOutputFormat")

\* The tail of runBundles: what is returned or thrown once the loads are awaited.
Extract(ctx, e) ==
  IF ~e.require THEN [kind |-> "ctx", val |-> CtxRef(0), err |-> ""]
  ELSE IF e.outputFormat = "global" THEN
    IF e.scopeHoist THEN [kind |-> "value", val |-> ctx.vars["output"], err |-> ""]
    ELSE IF FirstParcelRequire(ctx.keys) # 0
      THEN [kind |-> "value", val |-> Called(ctx.keys[FirstParcelRequire(ctx.keys)]), err |-> ""]
      ELSE [kind |-> "value", val |-> Undef, err |-> ""]
  ELSE IF e.outputFormat = "commonjs" THEN
    IF ctx.modOk THEN [kind |-> "value", val |-> ctx.exports, err |-> ""]
    ELSE Failure("Invariant")
  ELSE Failure("UnsupportedOutputFormat")

\* Whether the current call registers pending loads at all (promises is
\* left undefined by the process-like targets).
HasPromises == target \in { "browser", "electron-renderer" }

\* The continuation of runBundles after `await Promise.all(promises)`, taken
\* in the turn in which the awaited loads are all settled. opts.require,
\* env.outputFormat and env.scopeHoist are inputs of the call that nothing
\* reads before this point: e is their value, drawn where they are read.
Settle(ps, n, ctx, e) ==
  LET j == IF HasPromises THEN JoinState(ps, n) ELSE "resolved" IN
  IF j = "pending" THEN
    /\ pc' = "joining" /\ result' = NoResult /\ env' = NoEnv /\ calls' = << >>
  ELSE IF j = "rejected" THEN
    /\ pc' = "failed" /\ result' = Failure("ReadError") /\ env' = NoEnv /\ calls' = << >>
  ELSE
    /\ env' = e
    /\ result' = Extract(ctx, e)
    /\ calls' = ExtractCalls(ctx, e)
    /\ pc' = IF Extract(ctx, e).kind = "error" THEN "failed" ELSE "done"

Envs ==
  { [read |-> TRUE, outputFormat |-> f, scopeHoist |-> h, require |-> r] :
      f \in OutputFormats, h \in BOOLEAN, r \in BOOLEAN }

\* ---------------------------------------------------------------- runBundles
NoCtx == NewCtx(NotFound, 0, 0)

\* A switch whose default case runs the browser branch.
HalvesDefaultBrowser(t) ==
  CASE t \in { "node", "electron-main" } -> { "node" }
    [] t = "electron-renderer" -> { "browser", "node" }
    [] OTHER -> { "browser" }

\* The context halves the switch over the target builds.
Halves(t) ==
  CASE t = "browser" -> { "browser" }
    [] t \in { "node", "electron-main" } -> { "node" }
    [] t = "electron-renderer" -> { "browser", "node" }
    [] OTHER -> { }

\* The object handed to vm.createContext and to every bundle: the browser
\* half, the process half, or the fresh object spread from both.
EvalCtx(t) ==
  CASE t = "browser" -> "browser"
    [] t \in { "node", "electron-main" } -> "node"
    [] OTHER -> "merged"

\* The object the timer callback of head.appendChild evaluates a loaded
\* script in: the ctx of prepareBrowserContext.
ScriptCtx(t) == "browser"

\* No load of the last call is still running.
Quiet ==
  /\ timers = << >>
  /\ \A i \in DOMAIN promises :
       promises[i].kind = "fetch" => promises[i].state # "pending"

\* The state of the run-local variables between two calls.
IdleRun ==
  /\ pc = "idle"
  /\ target = "browser"
  /\ bundles = << >>
  /\ idx = 0
  /\ prepared = { }
  /\ main = NoCtx
  /\ promises = << >>
  /\ head = << >>
  /\ joinLen = -1
  /\ timers = << >>
  /\ result = NoResult
  /\ env = NoEnv
  /\ order = << >>
  /\ evals = [f \in Files |-> 0]
  /\ reqlog = << >>
  /\ calls = << >>

\* A call of runBundles, up to its first await.
StartRun ==
  /\ pc = "idle"
  /\ run < MaxRuns
  /\ \E t \in Targets, bl \in BundleLists :
       /\ run' = run + 1
       /\ target' = t
       /\ bundles' = bl
       /\ prepared' = Halves(t)
       /\ IF Halves(t) = { }
          THEN /\ pc' = "failed"
               /\ result' = Failure("UnknownTarget")
               /\ main' = NoCtx
               /\ idx' = 0
          ELSE /\ pc' = "reading"
               /\ result' = NoResult
               /\ main' = NewCtx(bl[1], run + 1, 0)
               /\ idx' = 1
  /\ UNCHANGED << heap, nodeCache, nctx, promises, head, joinLen, timers, env,
                  order, evals, reqlog, calls, resVars >>

\* The caller has the outcome of the call and nothing of it is still
\* running: its locals are dropped. The module-level nodeCache stays.
EndRun ==
  /\ pc \in { "done", "failed" }
  /\ Quiet
  /\ pc' = "idle"
  /\ target' = "browser"
  /\ bundles' = << >>
  /\ idx' = 0
  /\ prepared' = { }
  /\ main' = NoCtx
  /\ promises' = << >>
  /\ head' = << >>
  /\ joinLen' = -1
  /\ timers' = << >>
  /\ result' = NoResult
  /\ env' = NoEnv
  /\ order' = << >>
  /\ evals' = [f \in Files |-> 0]
  /\ reqlog' = << >>
  /\ calls' = << >>
  /\ UNCHANGED << procVars, resVars >>

\* The read of bundle idx settles: a failed read ends the call; otherwise the
\* bundle is evaluated in the shared context, and either the next read
\* starts or Promise.all takes the pending loads registered so far. The
\* microtasks of the turn run after that.
BundleRead ==
  /\ pc = "reading"
  /\ IF bundles[idx] \notin Files
     THEN /\ pc' = "failed"
          /\ result' = Failure("ENOENT")
          /\ UNCHANGED << heap, nodeCache, nctx, main, promises, head, timers, evals,
                          reqlog, order, idx, joinLen, env, calls >>
     ELSE LET b == bundles[idx]
              st == Exec(Code(b), b, 0, 0, Turn(<< [file |-> b, ctx |-> 0] >>))
              n == Len(st.promises)
              ps == StartReads(st.micro, st.parent, st.promises)
          IN /\ heap' = st.heap
             /\ nodeCache' = st.cache
             /\ nctx' = st.nctx
             /\ main' = st.main
             /\ promises' = ps
             /\ head' = st.head
             /\ timers' = st.timers
             /\ evals' = st.evals
             /\ reqlog' = st.reqlog
             /\ order' = Append(order,
                  [ b |-> idx,
                    seen |-> { v \in Names :
                                 Turn(<< [file |-> b, ctx |-> 0] >>).main.vars[v] # Undef } ])
             /\ IF st.err # "none"
                THEN /\ pc' = "failed"
                     /\ result' = Failure(st.err)
                     /\ UNCHANGED << idx, joinLen, env, calls >>
                ELSE IF idx < Len(bundles)
                THEN /\ idx' = idx + 1
                     /\ UNCHANGED << pc, result, joinLen, env, calls >>
                ELSE /\ joinLen' = n
                     /\ UNCHANGED idx
                     /\ \E e \in Envs : Settle(ps, n, st.main, e)
  /\ UNCHANGED << run, target, bundles, prepared, resVars >>

\* The timer of the oldest appended script tag fires: the file is read, its
\* code evaluated, onload invoked and the load resolved. A throw anywhere in
\* the callback leaves the load pending for good.
TimerFire ==
  /\ timers # << >>
  /\ LET i == Head(timers)
         path == promises[i].path
         st0 == [Turn(<< [file |-> path, ctx |-> 0] >>) EXCEPT !.timers = Tail(timers)]
         canRun == path \in Files /\ ScriptCtx(target) = EvalCtx(target)
         st == IF canRun THEN Exec(Code(path), path, 0, 0, st0) ELSE st0
         ok == canRun /\ st.err = "none"
         ps1 == [st.promises EXCEPT ![i] =
                   IF ok THEN [@ EXCEPT !.state = "resolved"] ELSE [@ EXCEPT !.dead = TRUE]]
         ps == StartReads(st.micro, st.parent, ps1)
         done == IF ok THEN ScriptSteps
                 ELSE IF path \in Files THEN << "read" >>
                 ELSE << >>
         el == CHOOSE k \in DOMAIN head : head[k].load = i
     IN /\ heap' = st.heap
        /\ nodeCache' = st.cache
        /\ nctx' = st.nctx
        /\ main' = st.main
        /\ promises' = ps
        /\ head' = [st.head EXCEPT ![el].steps = done]
        /\ timers' = st.timers
        /\ evals' = st.evals
        /\ reqlog' = st.reqlog
        /\ IF pc = "joining"
           THEN \E e \in Envs : Settle(ps, joinLen, st.main, e)
           ELSE UNCHANGED << pc, result, env, calls >>
  /\ UNCHANGED << run, target, bundles, prepared, idx, joinLen, order, resVars >>

\* A read started by text() or arrayBuffer() settles.
ReadSettle ==
  /\ \E i \in DOMAIN promises :
       /\ promises[i].kind = "fetch"
       /\ promises[i].state = "pending"
       /\ promises' = [promises EXCEPT ![i].state =
                         IF promises[i].path \in Files THEN "resolved" ELSE "rejected"]
  /\ IF pc = "joining"
     THEN \E e \in Envs : Settle(promises', joinLen, main, e)
     ELSE UNCHANGED << pc, result, env, calls >>
  /\ UNCHANGED << procVars, target, bundles, idx, prepared, main, head, joinLen,
                  timers, order, evals, reqlog, resVars >>

\* ---------------------------------------------------------- NodeResolverBase
Chars == { "a", ".", "/" }

\* File paths, as sequences of characters.
Paths == UNION { [1..n -> Chars] : n \in 0..MaxPathLen }

ExtJs == << ".", "j", "s" >>
ExtTs == << ".", "t", "s" >>

\* Extension lists a resolver is configured with.
ExtLists == UNION { [1..n -> { ExtJs, ExtTs }] : n \in 0..MaxExts }

RECURSIVE ExtScan(_, _, _)
\* The backward scan of path.extname (positions 1-based, 0 for "none").
ExtScan(path, i, s) ==
  IF i < 1 THEN s
  ELSE IF path[i] = "/"
    THEN IF ~s.matchedSlash THEN [s EXCEPT !.startPart = i + 1]
         ELSE ExtScan(path, i - 1, s)
  ELSE
    LET s1 == IF s.end = 0 THEN [s EXCEPT !.matchedSlash = FALSE, !.end = i] ELSE s
        s2 == IF path[i] = "."
              THEN IF s1.startDot = 0 THEN [s1 EXCEPT !.startDot = i]
                   ELSE IF s1.preDotState # 1 THEN [s1 EXCEPT !.preDotState = 1]
                   ELSE s1
              ELSE IF s1.startDot # 0 THEN [s1 EXCEPT !.preDotState = -1]
              ELSE s1
    IN ExtScan(path, i - 1, s2)

\* path.extname(path)
extname(path) ==
  LET s == ExtScan(path, Len(path),
             [startDot |-> 0, startPart |-> 1, end |-> 0, matchedSlash |-> TRUE, preDotState |-> 0])
  IN IF \/ s.startDot = 0
        \/ s.end = 0
        \/ s.preDotState = 0
        \/ (s.preDotState = 1 /\ s.startDot = s.end /\ s.startDot = s.startPart + 1)
     THEN << >>
     ELSE SubSeq(path, s.startDot, s.end)

RECURSIVE PushAll(_, _, _)
\* for (let ext of this.extensions) res.push(file + ext)
PushAll(res, f, exts) ==
  IF exts = << >> THEN res
  ELSE PushAll(Append(res, f \o Head(exts)), f, Tail(exts))

\* An expandFile that always pushes the bare name last.
expandFileBareLast(f, exts) == Append(PushAll(<< >>, f, exts), f)

\* NodeResolverBase.expandFile
expandFile(f, exts) ==
  LET res == PushAll(<< >>, f, exts) IN
  IF extname(f) # << >> THEN << f >> \o res ELSE Append(res, f)

\* A call of expandFile on the drawn path.
ExpandFile ==
  /\ rpc = "input"
  /\ candidates' = expandFile(file, extensions)
  /\ rpc' = "expanded"
  /\ UNCHANGED << file, extensions, procVars, runVars, pkgVars, modVars, ctxVars >>

\* ------------------------------------------------------------- path (posix)
RECURSIVE SplitSep(_, _)
\* String.prototype.split(path.sep), the last element of segs being in progress.
SplitSep(s, segs) ==
  IF s = << >> THEN segs
  ELSE IF Head(s) = "/" THEN SplitSep(Tail(s), Append(segs, << >>))
  ELSE SplitSep(Tail(s), [segs EXCEPT ![Len(segs)] = Append(@, Head(s))])

split(s) == SplitSep(s, << << >> >>)

RECURSIVE normalizeString(_, _, _)
\* The segment walk of path.normalize and path.resolve: empty and "." segments
\* are dropped, ".." removes the segment before it.
normalizeString(segs, allowAboveRoot, res) ==
  IF segs = << >> THEN res
  ELSE
    LET seg == Head(segs)
        r == IF seg = << >> \/ seg = << "." >> THEN res
             ELSE IF seg = << ".", "." >>
               THEN IF res # << >> /\ res[Len(res)] # << ".", "." >>
                      THEN SubSeq(res, 1, Len(res) - 1)
                    ELSE IF allowAboveRoot THEN Append(res, seg)
                    ELSE res
             ELSE Append(res, seg)
    IN normalizeString(Tail(segs), allowAboveRoot, r)

RECURSIVE join(_)
\* Array.prototype.join("/")
join(segs) ==
  IF segs = << >> THEN << >>
  ELSE IF Len(segs) = 1 THEN segs[1]
  ELSE segs[1] \o << "/" >> \o join(Tail(segs))

\* path.normalize(p)
pathNormalize(p) ==
  IF p = << >> THEN << "." >>
  ELSE
    LET isAbsolute == p[1] = "/"
        trailingSeparator == p[Len(p)] = "/"
        n == join(normalizeString(split(p), ~isAbsolute, << >>))
    IN IF n = << >>
         THEN IF isAbsolute THEN << "/" >>
              ELSE IF trailingSeparator THEN << ".", "/" >>
              ELSE << "." >>
       ELSE (IF isAbsolute THEN << "/" >> ELSE << >>) \o n
              \o (IF trailingSeparator THEN << "/" >> ELSE << >>)

\* path.resolve(dir, p) for an absolute dir.
pathResolve(dir, p) ==
  LET resolvedPath == IF p = << >> THEN dir
                      ELSE IF p[1] = "/" THEN p
                      ELSE dir \o << "/" >> \o p
  IN << "/" >> \o join(normalizeString(split(resolvedPath), FALSE, << >>))

\* -------------------------------------------------------- getPackageEntries
\* The value of a manifest field: absent, a string, or something else.
Undefined == [t |-> "undefined", s |-> << >>]
NotAString == [t |-> "number", s |-> << >>]
Str(s) == [t |-> "string", s |-> s]

MainChars == { "m", ".", "/" }
MainStrings == UNION { [1..n -> MainChars] : n \in 0..MaxMainLen }
FieldValues == { Undefined, NotAString } \cup { Str(s) : s \in MainStrings }

ParcelScope == << "@", "p", "a", "r", "c", "e", "l", "/" >>
WatcherName == ParcelScope \o << "w", "a", "t", "c", "h", "e", "r" >>
PackageNames ==
  { Undefined, NotAString, Str(WatcherName), Str(ParcelScope \o << "f", "s" >>),
    Str(<< "@", "p", "a", "r", "c", "e", "l" >>), Str(<< "m" >>) }

BuildEnvs == { "production", "development", "unset" }
PkgDirs == { << "/" >>, << "/", "p" >> }
IndexName == << "i", "n", "d", "e", "x" >>

\* String.prototype.startsWith
startsWith(s, prefix) ==
  Len(s) >= Len(prefix) /\ SubSeq(s, 1, Len(prefix)) = prefix

\* A policy that forgets the exception made for @parcel/watcher.
SourcePolicyNoWatcher(e, name) ==
  e # "production" /\ name.t = "string" /\ startsWith(name.s, ParcelScope)

\* The condition under which the source field replaces the main field.
SourcePolicy(e, name) ==
  /\ e # "production"
  /\ name.t = "string"
  /\ startsWith(name.s, ParcelScope)
  /\ name.s # WatcherName

\* NodeResolverBase.getPackageEntries
getPackageEntries(dir, p, e) ==
  LET field == IF SourcePolicy(e, p.name) THEN p.source ELSE p.main
      kept == IF field.t = "string" THEN << field.s >> ELSE << >>
      entry(m) == IF m = << >> \/ m = << "." >> \/ m = << ".", "/" >>
                  THEN IndexName ELSE m
  IN [i \in 1..Len(kept) |-> pathResolve(dir, entry(kept[i]))]

\* A call of getPackageEntries on the drawn manifest.
GetPackageEntries ==
  /\ epc = "input"
  /\ entries' = getPackageEntries(pkgDir, pkg, buildEnv)
  /\ epc' = "returned"
  /\ UNCHANGED << pkgDir, pkg, buildEnv, file, extensions, candidates, rpc,
                  procVars, runVars, modVars, ctxVars >>

\* ------------------------------------------------ getModuleParts, isBuiltin
ModChars == { "@", "a", "/", "." }

\* Module.builtinModules, as far as modelled: fs and path.
BuiltinModules == { << "f", "s" >>, << "p", "a", "t", "h" >> }

\* Property names every plain object inherits from Object.prototype.
ObjectPrototypeKeys ==
  { << "c", "o", "n", "s", "t", "r", "u", "c", "t", "o", "r" >>,
    << "t", "o", "S", "t", "r", "i", "n", "g" >>,
    << "v", "a", "l", "u", "e", "O", "f" >> }

\* Names of modules: short strings, the builtins, and names that happen to
\* be properties of every object.
ModNames ==
  UNION { [1..n -> ModChars] : n \in 0..MaxNameLen }
    \cup BuiltinModules \cup ObjectPrototypeKeys

\* `${parts[1]}` when the array has no second element.
UndefinedText == << "u", "n", "d", "e", "f", "i", "n", "e", "d" >>

\* String.prototype.charAt(0), "" being << >>.
charAt0(s) == IF s = << >> THEN << >> ELSE << s[1] >>

\* A getModuleParts that never merges.
getModulePartsUnmerged(name) == split(pathNormalize(name))

\* NodeResolverBase.getModuleParts
getModuleParts(name) ==
  LET ps == split(pathNormalize(name)) IN
  IF charAt0(ps[1]) = << "@" >>
    THEN << ps[1] \o << "/" >> \o (IF Len(ps) >= 2 THEN ps[2] ELSE UndefinedText) >>
           \o SubSeq(ps, 3, Len(ps))
  ELSE ps

\* builtins[name]: an own key, or a property found on Object.prototype.
isBuiltin(name) == name \in builtins \/ name \in ObjectPrototypeKeys

\* A call of getModuleParts on the drawn name.
GetModuleParts ==
  /\ mpc = "input"
  /\ parts' = getModuleParts(modName)
  /\ mpc' = "parts"
  /\ UNCHANGED << builtins, modName, builtin, file, extensions, candidates, rpc,
                  pkgVars, ctxVars, procVars, runVars >>

\* A call of isBuiltin on the drawn name.
IsBuiltin ==
  /\ mpc = "input"
  /\ builtin' = isBuiltin(modName)
  /\ mpc' = "builtin"
  /\ UNCHANGED << builtins, modName, parts, file, extensions, candidates, rpc,
                  pkgVars, ctxVars, procVars, runVars >>

\* ------------------------------------------------- the prepared contexts
\* Properties of a context the model follows, and the keys the caller's
\* globals may carry.
CtxKeys == { "window", "self", "global", "document", "require", "module" }
GlobalsKeys == { "window", "self", "global", "document", "require" }

\* What a property holds: nothing, the value the preparation gives it, the
\* value the caller gave, or one of the context objects (named as EvalCtx
\* names them).
Absent == "absent"
Own == "own"
Given == "given"

\* Object.assign(base, globals)
Assign(base, g) == [k \in CtxKeys |-> IF k \in g THEN Given ELSE base[k]]

\* The ctx of prepareBrowserContext(filePath, globals).
BrowserProps(g) ==
  LET base == [k \in CtxKeys |-> IF k \in { "document", "module" } THEN Own ELSE Absent]
  IN [Assign(base, g) EXCEPT !["window"] = "browser", !["self"] = "browser"]

\* The ctx of prepareNodeContext(filePath, globals).
NodeProps(g) ==
  LET base == [k \in CtxKeys |-> IF k \in { "require", "module" } THEN Own ELSE Absent]
  IN [Assign(base, g) EXCEPT !["global"] = "node"]

\* {...a, ...b}
Spread(a, b) == [k \in CtxKeys |-> IF b[k] # Absent THEN b[k] ELSE a[k]]

\* The properties of the object the switch over the target leaves in ctx.
CtxPropsOf(t, g) ==
  CASE t = "browser" -> BrowserProps(g)
    [] t \in { "node", "electron-main" } -> NodeProps(g)
    [] OTHER -> Spread(BrowserProps(g), NodeProps(g))

NoProps == [k \in CtxKeys |-> Absent]

\* The switch over the target, for the drawn target and globals.
PrepareContext ==
  /\ cpc = "input"
  /\ IF Halves(ctxTarget) = { }
     THEN cpc' = "failed" /\ ctxProps' = NoProps
     ELSE cpc' = "prepared" /\ ctxProps' = CtxPropsOf(ctxTarget, globals)
  /\ UNCHANGED << ctxTarget, globals, file, extensions, candidates, rpc, pkgVars,
                  modVars, procVars, runVars >>

\* ------------------------------------------------------------ specifications
InitRun ==
  /\ heap = << >>
  /\ nodeCache = << >>
  /\ nctx = 0
  /\ run = 0
  /\ IdleRun

\* No getPackageEntries call is made.
NoPackage ==
  /\ pkgDir = << >>
  /\ pkg = [name |-> Undefined, main |-> Undefined, source |-> Undefined]
  /\ buildEnv = "unset"
  /\ entries = << >>
  /\ epc = "unused"

\* No context is prepared apart from those of the runs.
NoContext ==
  /\ ctxTarget = "browser"
  /\ globals = { }
  /\ ctxProps = NoProps
  /\ cpc = "unused"

\* The module has been loaded; no getModuleParts or isBuiltin call is made.
NoModule ==
  /\ builtins = BuiltinModules
  /\ modName = << >>
  /\ parts = << >>
  /\ builtin = FALSE
  /\ mpc = "unused"

\* The executor: a process that calls runBundles up to MaxRuns times.
Init ==
  /\ InitRun
  /\ file = << >>
  /\ extensions = << >>
  /\ candidates = << >>
  /\ rpc = "unused"
  /\ NoPackage
  /\ NoModule
  /\ NoContext

Next == StartRun \/ BundleRead \/ TimerFire \/ ReadSettle \/ EndRun

Spec == Init /\ [][Next]_vars

\* The resolver: one resolver instance with a drawn configuration, given a
\* drawn path.
InitResolver ==
  /\ InitRun
  /\ file \in Paths
  /\ extensions \in ExtLists
  /\ candidates = << >>
  /\ rpc = "input"
  /\ NoPackage
  /\ NoModule
  /\ NoContext

NextResolver == ExpandFile

SpecResolver == InitResolver /\ [][NextResolver]_vars

\* The resolver given a drawn package directory and manifest, in a drawn
\* build mode.
InitEntries ==
  /\ InitRun
  /\ file = << >>
  /\ extensions = << >>
  /\ candidates = << >>
  /\ rpc = "unused"
  /\ pkgDir \in PkgDirs
  /\ pkg \in [name : PackageNames, main : FieldValues, source : FieldValues]
  /\ buildEnv \in BuildEnvs
  /\ entries = << >>
  /\ epc = "input"
  /\ NoModule
  /\ NoContext

NextEntries == GetPackageEntries

SpecEntries == InitEntries /\ [][NextEntries]_vars

\* The resolver given a drawn module name.
InitModule ==
  /\ InitRun
  /\ file = << >>
  /\ extensions = << >>
  /\ candidates = << >>
  /\ rpc = "unused"
  /\ NoPackage
  /\ builtins = BuiltinModules
  /\ modName \in ModNames
  /\ parts = << >>
  /\ builtin = FALSE
  /\ mpc = "input"
  /\ NoContext

NextModule == GetModuleParts \/ IsBuiltin

SpecModule == InitModule /\ [][NextModule]_vars

\* The preparation of the evaluation context for a drawn target and drawn
\* caller globals.
InitContext ==
  /\ InitRun
  /\ file = << >>
  /\ extensions = << >>
  /\ candidates = << >>
  /\ rpc = "unused"
  /\ NoPackage
  /\ NoModule
  /\ ctxTarget \in Targets
  /\ globals \in SUBSET GlobalsKeys
  /\ ctxProps = NoProps
  /\ cpc = "input"

NextContext == PrepareContext

SpecContext == InitContext /\ [][NextContext]_vars

\* -------------------------------------------------------------- properties
KnownTargets == { "browser", "node", "electron-main", "electron-renderer" }

\* The globals the code of a file binds when it runs to its end.
Written(f) == { o.arg : o \in { x \in Range(Code(f)) : x.op = "set" } }

Settled(l) == l.state \in { "resolved", "rejected" }

\* C1: the bundles of the list are evaluated one at a time and in list
\* order (the k-th evaluation is that of bundle k, and the bundle being read
\* is the one after the last evaluated), all in the one context of the call:
\* every global bound by bundle i is bound when a later bundle j starts.
C1_BundlesInOrderOneContext ==
  /\ \A j \in DOMAIN order : order[j].b = j
  /\ Len(order) <= Len(bundles)
  /\ pc = "reading" => idx = Len(order) + 1
  /\ \A j \in DOMAIN order : \A i \in 1..(j - 1) :
       Written(bundles[i]) \subseteq order[j].seen

\* Two bundles were evaluated and the second found the global of the first.
C1_Witness ==
  /\ bundles = << "/dist/a.js", "/dist/b.js" >>
  /\ Len(order) = 2
  /\ "g1" \in order[2].seen
  /\ pc \in { "joining", "done" }

\* C2: in the turn in which runBundles produces its result, every load
\* pushed on the pending-load list so far has settled.
C2_AllLoadsSettledAtResult ==
  [][ (pc # "done" /\ pc' = "done") =>
        \A i \in DOMAIN promises' : Settled(promises'[i]) ]_vars

\* The underlying read of load l was made and failed.
ReadFailed(l) ==
  /\ l.path \notin Files
  /\ \/ l.kind = "script" /\ l.dead
     \/ l.kind = "fetch" /\ l.state # "pending"

\* C3: a load whose underlying read failed is rejected, the call does not
\* return a result, and it is not left waiting with nothing more to run.
C3_FailedReadFailsRun ==
  \A i \in DOMAIN promises :
    ReadFailed(promises[i]) =>
      /\ promises[i].state = "rejected"
      /\ pc # "done"
      /\ ~(pc = "joining" /\ Quiet)

\* C4 as stated: every require of a file whose code is being evaluated,
\* the entry file included, is served from the cache with the export object
\* that evaluation is populating, and no call exhausts the stack.
C4_CircularRequireAnyModule ==
  /\ result.err # "RangeError"
  /\ \A k \in DOMAIN reqlog :
       reqlog[k].onstack => reqlog[k].kind = "cached" /\ reqlog[k].ret = reqlog[k].live

\* C4, amended: every require of a file whose code is being evaluated in a
\* nested context (a file that was itself loaded through require) is served
\* from the cache with the export object that evaluation is populating,
\* its code having been evaluated once; and no call exhausts the stack.
C4_CircularRequireNested ==
  /\ result.err # "RangeError"
  /\ \A k \in DOMAIN reqlog :
       reqlog[k].nested =>
         /\ reqlog[k].kind = "cached"
         /\ reqlog[k].ret = reqlog[k].live
         /\ reqlog[k].evals = 1

\* b.js, required by a.js, required a.js back and got its export object.
C4_Witness ==
  \E k \in DOMAIN reqlog :
    /\ reqlog[k].nested
    /\ reqlog[k].res = "/app/a.js"
    /\ reqlog[k].from # 0
    /\ reqlog[k].kind = "cached"

\* C5: between two calls the require cache is empty, and every context it
\* holds during a call was built by that call.
C5_CacheScopedToRun ==
  /\ pc = "idle" => DOMAIN nodeCache = { }
  /\ \A f \in DOMAIN nodeCache : heap[nodeCache[f]].run = run

\* C6: a call whose target is none of the four known kinds has failed with
\* the unknown-target error, has built no context, has started no read,
\* evaluated no bundle and registered no load.
C6_UnknownTargetFailsFirst ==
  (pc # "idle" /\ target \notin KnownTargets) =>
    /\ pc = "failed"
    /\ result = Failure("UnknownTarget")
    /\ prepared = { }
    /\ main = NoCtx
    /\ idx = 0
    /\ order = << >>
    /\ promises = << >>
    /\ timers = << >>

\* A call for a web worker has failed.
C6_Witness == target = "web-worker" /\ pc = "failed" /\ run = 1

\* C7 as stated: once the output format is read and is neither global nor
\* commonjs, the call has failed with the unsupported-format error,
\* whatever opts.require is.
C7_UnknownFormatAlwaysFatal ==
  (env.read /\ env.outputFormat \notin { "global", "commonjs" }) =>
    pc = "failed" /\ result = Failure("UnsupportedOutputFormat")

\* C7, amended: no call returns before its extraction step; with
\* opts.require not false, a call that reaches the extraction with an output
\* format that is neither global nor commonjs fails there with the
\* unsupported-format error and returns nothing; with opts.require false
\* the format is not looked at and the raw context is returned.
C7_UnknownFormatFatalWhenRequired ==
  /\ pc = "done" => env.read
  /\ (env.read /\ env.outputFormat \notin { "global", "commonjs" }) =>
       IF env.require
       THEN pc = "failed" /\ result = Failure("UnsupportedOutputFormat")
       ELSE pc = "done" /\ result.kind = "ctx"

\* An esmodule run asked for its export and failed.
C7_Witness ==
  /\ env.read /\ env.require /\ env.outputFormat = "esmodule"
  /\ pc = "failed"
  /\ Len(order) = Len(bundles)

\* The extraction happens in this step.
Extracting == ~env.read /\ env'.read

ParcelRequireKeys(ctx) == { k \in Range(ctx.keys) : StartsWithParcelRequire(k) }

\* C9: a global extraction (opts.require not false) returns, with scope
\* hoisting, the value of the output global (undefined when unbound);
\* without, it invokes one global whose name starts with parcelRequire, once,
\* with the entry's public id, and returns what that returns, or returns
\* undefined without a call when there is no such global.
C9_GlobalExtraction ==
  [][ (Extracting /\ env'.require /\ env'.outputFormat = "global") =>
        /\ pc' = "done"
        /\ result'.kind = "value"
        /\ IF env'.scopeHoist
           THEN /\ result'.val = main'.vars["output"]
                /\ ("output" \notin Range(main'.keys) => result'.val = Undef)
                /\ calls' = << >>
           ELSE IF ParcelRequireKeys(main') = { }
           THEN result'.val = Undef /\ calls' = << >>
           ELSE /\ Len(calls') = 1
                /\ calls'[1].key \in ParcelRequireKeys(main')
                /\ calls'[1].arg = EntryPublicId
                /\ result'.val = Called(calls'[1].key) ]_vars

\* Two parcelRequire globals were bound and one call was made.
C9_Witness ==
  /\ pc = "done"
  /\ env.read /\ env.require /\ env.outputFormat = "global" /\ ~env.scopeHoist
  /\ Cardinality(ParcelRequireKeys(main)) = 2
  /\ Len(calls) = 1

RECURSIVE StripSlashes(_)
\* p without its trailing separators.
StripSlashes(p) ==
  IF p # << >> /\ p[Len(p)] = "/" THEN StripSlashes(SubSeq(p, 1, Len(p) - 1)) ELSE p

\* The last segment of p.
LastSegment(p) ==
  LET q == StripSlashes(p)
      cut == { i \in DOMAIN q : q[i] = "/" }
      from == IF cut = { } THEN 1 ELSE (CHOOSE i \in cut : \A j \in cut : j <= i) + 1
  IN SubSeq(q, from, Len(q))

\* p has a file extension: its last segment has a dot after its first
\* character, and is not "..".
HasExtension(p) ==
  LET b == LastSegment(p) IN
  b # << ".", "." >> /\ \E d \in 2..Len(b) : b[d] = "."

\* C10: expandFile returns one candidate more than there are configured
\* extensions: the path itself first when it has a file extension, last when
\* it has none, and the path with each extension appended, in the configured
\* order, in the other places.
C10_ExpandFileCandidates ==
  rpc = "expanded" =>
    LET n == Len(extensions) IN
    /\ Len(candidates) = n + 1
    /\ IF HasExtension(file)
       THEN /\ candidates[1] = file
            /\ \A i \in 1..n : candidates[i + 1] = file \o extensions[i]
       ELSE /\ candidates[n + 1] = file
            /\ \A i \in 1..n : candidates[i] = file \o extensions[i]

\* A path with an extension was expanded under two different extensions.
C10_Witness ==
  /\ rpc = "expanded"
  /\ HasExtension(file)
  /\ Len(extensions) = 2
  /\ extensions[1] # extensions[2]
  /\ candidates[1] = file

\* The field getPackageEntries reads the entry from.
SelectedField ==
  IF /\ buildEnv # "production"
     /\ pkg.name.t = "string"
     /\ startsWith(pkg.name.s, ParcelScope)
     /\ pkg.name.s # WatcherName
  THEN pkg.source ELSE pkg.main

\* The one candidate a string field stands for.
EntryOf(dir, field) ==
  pathResolve(dir, IF field.s \in { << >>, << "." >>, << ".", "/" >> }
                   THEN IndexName ELSE field.s)

\* dir/index
IndexOf(dir) == IF dir = << "/" >> THEN dir \o IndexName ELSE dir \o << "/" >> \o IndexName

\* C11: a manifest whose entry field is absent, not a string, empty, "." or
\* "./" yields exactly the one candidate dir/index, and getPackageEntries
\* never returns an empty list.
C11_UnusableFieldYieldsIndex ==
  epc = "returned" =>
    /\ entries # << >>
    /\ (SelectedField.t # "string"
        \/ SelectedField.s \in { << >>, << "." >>, << ".", "/" >> })
         => entries = << IndexOf(pkgDir) >>

\* C12: with a string main field and no source field, the entries are dir
\* resolved with main, whatever the package name and the build mode.
C12_MainOnlyIgnoresPolicy ==
  (epc = "returned" /\ pkg.main.t = "string" /\ pkg.source = Undefined)
    => entries = << EntryOf(pkgDir, pkg.main) >>

\* C13: with string main and source fields, the entry is the source field
\* exactly when the build is not production, the name starts with @parcel/
\* and the name is not @parcel/watcher; otherwise it is the main field.
C13_SourceUnderPolicyOnly ==
  (epc = "returned" /\ pkg.main.t = "string" /\ pkg.source.t = "string")
    => IF /\ buildEnv # "production"
          /\ pkg.name.t = "string"
          /\ startsWith(pkg.name.s, ParcelScope)
          /\ pkg.name.s # WatcherName
       THEN entries = << EntryOf(pkgDir, pkg.source) >>
       ELSE entries = << EntryOf(pkgDir, pkg.main) >>

\* Both fields are strings naming different files; one call fell under the
\* policy and returned the source file.
C13_Witness ==
  /\ epc = "returned"
  /\ pkg.main.t = "string"
  /\ pkg.source.t = "string"
  /\ EntryOf(pkgDir, pkg.main) # EntryOf(pkgDir, pkg.source)
  /\ buildEnv = "development"
  /\ pkg.name = Str(ParcelScope \o << "f", "s" >>)
  /\ entries = << EntryOf(pkgDir, pkg.source) >>

\* The segments of the normalised name, before any merge.
RawParts == split(pathNormalize(modName))

\* The name's first segment starts with "@".
Scoped == RawParts[1] # << >> /\ RawParts[1][1] = "@"

\* "@" scope "/" name, with a scope and a name that are not empty.
WellFormedScoped(e) ==
  LET slashes == { i \in 1..Len(e) : e[i] = "/" } IN
  /\ Len(e) >= 4
  /\ e[1] = "@"
  /\ Cardinality(slashes) = 1
  /\ \A k \in slashes : k > 2 /\ k < Len(e)

\* The segments are merged exactly for a scoped name, the rest keeps its order,
\* and a scoped name of two segments or more loses one element.
PartsMerged ==
  mpc = "parts" =>
    /\ ~Scoped => parts = RawParts
    /\ (Scoped /\ Len(RawParts) >= 2) =>
         /\ parts = << RawParts[1] \o << "/" >> \o RawParts[2] >>
                      \o SubSeq(RawParts, 3, Len(RawParts))
         /\ Len(parts) = Len(RawParts) - 1

\* C19 (as stated): getModuleParts merges the first two segments exactly when
\* the first starts with "@"; a scoped name of two segments or more gives one
\* element fewer than the raw split, the first being a well-formed @scope/name.
C19_ScopedPartsWellFormed ==
  /\ PartsMerged
  /\ (mpc = "parts" /\ Scoped /\ Len(RawParts) >= 2) => WellFormedScoped(parts[1])

\* C19 (amended): as above, the first element being the first two segments
\* joined by "/", which is a well-formed @scope/name exactly when the scope and
\* the second segment are not empty; a scoped name of a single segment gives
\* the one element "<segment>/undefined".
C19_ScopedPartsMerged ==
  /\ PartsMerged
  /\ (mpc = "parts" /\ Scoped /\ Len(RawParts) >= 2) =>
       (WellFormedScoped(parts[1]) <=> (Len(RawParts[1]) >= 2 /\ RawParts[2] # << >>))
  /\ (mpc = "parts" /\ Scoped /\ Len(RawParts) = 1) =>
       parts = << RawParts[1] \o << "/" >> \o UndefinedText >>

\* A scoped name of three segments was split into two parts.
C19_Witness ==
  /\ mpc = "parts"
  /\ Scoped
  /\ Len(RawParts) = 3
  /\ Len(parts) = 2
  /\ WellFormedScoped(parts[1])
  /\ RawParts[3] # << >>
  /\ parts[2] = RawParts[3]

\* C14: isBuiltin(name) is true exactly for the members of the builtin set,
\* and the builtin set never changes.
C14_IsBuiltinExact ==
  /\ builtins = BuiltinModules
  /\ mpc = "builtin" => (builtin <=> modName \in BuiltinModules)

\* C20: after a require whose evaluation of a path threw, nodeCache holds no
\* entry for that path.
C20_FailedRequireNotCached ==
  \A k \in DOMAIN reqlog :
    reqlog[k].kind = "threw" => reqlog[k].res \notin DOMAIN nodeCache

\* The paths some context built by require was prepared for, as many times as
\* there are such contexts.
ContextsOf(p) == { i \in DOMAIN heap : heap[i].file = p }

\* C18: require evaluates the code of a path at most once, over all the calls
\* of the process; a cache entry is never removed or replaced; a require that
\* returns gives the export object of the cached context; the fs shim and the
\* builtins never enter the cache.
C18_RequireSingleton ==
  /\ [](/\ \A p \in Files : Cardinality(ContextsOf(p)) <= 1 /\ evals[p] <= 1
        /\ \A k \in DOMAIN reqlog :
             reqlog[k].kind \in { "cached", "fresh" } =>
               /\ reqlog[k].res \in DOMAIN nodeCache
               /\ reqlog[k].ret \in { Obj(nodeCache[reqlog[k].res]),
                                     heap[nodeCache[reqlog[k].res]].exports }
        /\ DOMAIN nodeCache \subseteq Files \ Builtins
        /\ \A p \in DOMAIN nodeCache : ContextsOf(p) = { nodeCache[p] })
  /\ [][\A p \in DOMAIN nodeCache :
          p \in DOMAIN nodeCache' /\ nodeCache'[p] = nodeCache[p]]_vars

\* In a second run, a require of /app/a.js returned the exports of the
\* context the first run had built for it, and fs and path were required too.
C18_Witness ==
  /\ run = 2
  /\ \E k \in DOMAIN reqlog :
       /\ reqlog[k].res = "/app/a.js"
       /\ reqlog[k].kind = "cached"
       /\ heap[nodeCache["/app/a.js"]].run = 1
       /\ reqlog[k].ret = Obj(nodeCache["/app/a.js"])
  /\ \E k \in DOMAIN reqlog : reqlog[k].kind = "fsshim"
  /\ \E k \in DOMAIN reqlog : reqlog[k].kind = "builtin"

\* The file the src of an appended script tag names.
ScriptPath(el) == JoinPath(Dirname(bundles[1]), el.src)

\* C15: appendChild puts the element in head.children; for a script tag it
\* registers one pending load and does nothing else in that turn, and a later
\* turn reads the file, evaluates it, calls onload and only then resolves the
\* load; for any other element no load is registered and onload, when it is a
\* function, has been called when appendChild returns.
C15_AppendChildProtocol ==
  /\ [](/\ \A k \in DOMAIN head :
             IF head[k].tag = "script"
             THEN /\ head[k].load \in DOMAIN promises
                  /\ promises[head[k].load].kind = "script"
                  /\ promises[head[k].load].path = ScriptPath(head[k])
                  /\ promises[head[k].load].state # "rejected"
                  /\ head[k].steps = SubSeq(ScriptSteps, 1, Len(head[k].steps))
                  /\ head[k].load \in Range(timers) => head[k].steps = << >>
                  /\ promises[head[k].load].state = "resolved"
                       <=> head[k].steps = ScriptSteps
             ELSE /\ head[k].load = 0
                  /\ head[k].steps = IF HasOnload(head[k].tag) THEN << "onload" >> ELSE << >>
        /\ \A i \in DOMAIN promises :
             promises[i].kind = "script" =>
               Cardinality({ k \in DOMAIN head : head[k].load = i }) = 1)
  /\ [][Len(head') >= Len(head) =>
          /\ \A k \in DOMAIN head :
               /\ head'[k].tag = head[k].tag
               /\ head'[k].src = head[k].src
               /\ head'[k].load = head[k].load
          /\ \A k \in (Len(head) + 1)..Len(head') :
               head'[k].tag = "script" =>
                 /\ head'[k].steps = << >>
                 /\ head'[k].load \in Range(timers')
                 /\ head'[k].load > Len(promises)
                 /\ promises'[head'[k].load].state = "pending"]_vars

\* A link was appended and its onload called; the script appended after it
\* was read, evaluated and resolved in a later turn, and the script that one
\* appended is still waiting for its timer.
C15_Witness ==
  /\ target = "browser"
  /\ Len(head) = 3
  /\ head[1].tag = "link" /\ head[1].steps = << "onload" >>
  /\ head[2].tag = "script" /\ head[2].steps = ScriptSteps
  /\ promises[head[2].load].state = "resolved"
  /\ head[3].tag = "script" /\ head[3].steps = << >>
  /\ head[3].load \in Range(timers)
  /\ promises[head[3].load].state = "pending"

\* C16: the code of a dynamically loaded script runs in the context the
\* bundles run in: once its timer has fired and its file was read, the
\* globals it binds are globals of that context.
C16_ScriptSharesBundleContext ==
  \A k \in DOMAIN head :
    (/\ head[k].tag = "script"
     /\ head[k].load \notin Range(timers)
     /\ ScriptPath(head[k]) \in Files)
      => /\ ScriptCtx(target) = EvalCtx(target)
         /\ Written(ScriptPath(head[k])) \subseteq { v \in Names : main.vars[v] # Undef }

\* C17: in the context the bundles are evaluated in, window and self (when
\* there is a browser half) and global (when there is a process half) hold
\* that very context, whatever keys the caller's globals carry.
C17_AliasesAreTheContext ==
  cpc = "prepared" =>
    /\ "browser" \in Halves(ctxTarget) =>
         /\ ctxProps["window"] = EvalCtx(ctxTarget)
         /\ ctxProps["self"] = EvalCtx(ctxTarget)
    /\ "node" \in Halves(ctxTarget) => ctxProps["global"] = EvalCtx(ctxTarget)
====
